---- MODULE Spec2Model ----
(***************************************************************************)
(* Model of burn-cubecl-fusion's fused matmul optimization                 *)
(* (matmul/optimization.rs) and of burn-distributed's device mesh builder  *)
(* (sharding/mesh.rs).                                                     *)
(*                                                                         *)
(* Four specifications share the module:                                   *)
(*   RunSpec   FusedMatmul::run as a function of its inputs                *)
(*   ShapeSpec FusedMatmul::run over all operand shapes                    *)
(*   Spec      the MatmulOptimization coordinator and its entry points     *)
(*   MeshSpec  DeviceMeshBuilder: new, with_dim, build                     *)
(***************************************************************************)
EXTENDS Integers, Sequences, FiniteSets, TLC

VARIABLES
    runIn,      \* the arguments of one FusedMatmul::run call
    runOut,     \* what that call did (NoRun before it ran)
    features,   \* cargo features of the build: autotune, autotune-checks
    opt,        \* the MatmulOptimization
    saved,      \* the last MatmulOptimizationState taken by to_state
    pc,         \* "idle", "tuning" (inside execute, the autotuner at work), "aborted"
    call,       \* history: the last call made on the coordinator and what it did
    lastExecute,\* history: the fallback argument of the latest execute call
    builder,    \* the DeviceMeshBuilder
    passed,     \* history: the (idx, name) pairs given to with_dim so far
    built       \* the result of build (None before)

vars == <<runIn, runOut, features, opt, saved, pc, call, lastExecute,
          builder, passed, built>>

runVars == <<runIn, runOut>>
coordVars == <<features, opt, saved, pc, call, lastExecute>>
meshVars == <<builder, passed, built>>

(***************************************************************************)
(* Option, Result and panic values.                                        *)
(***************************************************************************)
None == [tag |-> "None"]
Some(v) == [tag |-> "Some", val |-> v]

Ok == [tag |-> "Ok", err |-> "-", cause |-> "-"]
Err(e, c) == [tag |-> "Err", err |-> e, cause |-> c]
Panic(msg) == [tag |-> "Panic", err |-> msg, cause |-> "-"]

InvalidInput == Err("InvalidInput", "-")
LaunchError(c) == Err("LaunchError", c)
PlaneDimUnknown == "Unavailable(PlaneDimUnknown)"

(***************************************************************************)
(* usize dimensions on a 64-bit host, kept as two 32-bit words:            *)
(* the value is hi * 2^32 + lo.                                            *)
(***************************************************************************)
Usize(h, l) == [hi |-> h, lo |-> l]

\* `x as u32`: the low 32 bits
AsU32(x) == x.lo

\* `x as usize` of a u32
AsUsize(u) == Usize(0, u)

(***************************************************************************)
(* The inputs of a fused run.                                              *)
(***************************************************************************)
MaxRank == 3

DimValues == {Usize(0, 2), Usize(0, 3), Usize(1, 2)}

Shapes == UNION {[1..r -> DimValues] : r \in 2..MaxRank}

\* what matrix_batch_layout returns for an operand's strides
Layout(t, tr, bs) == [tag |-> t, transposed |-> tr, batch_swap |-> bs]

MatrixBatchLayouts ==
    {Layout("Contiguous", FALSE, FALSE), Layout("HighlyPermuted", FALSE, FALSE)}
    \cup {Layout("MildlyPermuted", tr, bs) : tr \in BOOLEAN, bs \in BOOLEAN}

LineSizes == {1, 4}

SupportedPrecisions == {"F32", "Flex32", "F16", "BF16"}

FusePrecisions == SupportedPrecisions \cup {"I32", "Bool"}

FusedMatmulSelectors == {"Simple", "DoubleBuffering"}

\* FuseBlockConfig.ref_layout: Virtual, or Concrete with the reference operand
RefLayouts ==
    {[tag |-> "Virtual", arg |-> "-"]}
    \cup {[tag |-> "Concrete", arg |-> a] : a \in {"Input", "Output", "Scalar"}}

\* a device, with the hardware properties its compute client reports
Devices == [plane_size : {None, Some(32)}, tf32 : BOOLEAN]

\* R::client(device)
R_client(device) == [device |-> device]

Clients == {R_client(d) : d \in Devices}

\* what select_kernel_virtual returns
KernelOutcomes == {"Ok", "InvalidConfig"}

\* FusedMatmul: the precision of `out` and the selector are what run reads
FusedMatmul(p, s) ==
    [lhs |-> "Input(0)", rhs |-> "Input(1)", out |-> [arg |-> "Output(0)", precision |-> p],
     op |-> "matmul", selector |-> s]

(***************************************************************************)
(* FusedMatmul::matmul_fused and matmul_launch_kernel.                     *)
(***************************************************************************)
Mutant_check_layout_no_reject(layout) ==
    IF layout.tag = "MildlyPermuted" THEN <<FALSE, layout.transposed>>
    ELSE <<FALSE, FALSE>>

check_layout(layout) ==
    CASE layout.tag = "Contiguous" -> <<FALSE, FALSE>>
      [] layout.tag = "MildlyPermuted" -> <<FALSE, layout.transposed>>
      [] layout.tag = "HighlyPermuted" -> <<TRUE, FALSE>>

Mutant_MatrixLayout_swapped(transposed) == IF transposed THEN "RowMajor" ELSE "ColMajor"

\* the match on lhs_transposed / rhs_transposed of the MatmulProblem
MatrixLayout(transposed) == IF transposed THEN "ColMajor" ELSE "RowMajor"

\* <A::TileMatmul as TileMatmulFamily>::requires_tensor_cores(), A's tile
\* matmul being AcceleratedMatmul for both algorithms
requires_tensor_cores(A) == A \in {"SimpleAlgorithm<AcceleratedMatmul>",
                                   "CyclicDoubleBufferingAlgorithm<AcceleratedMatmul>"}

\* EG::ES, the stage element type of a MatmulPrecision
ES(EG) == CASE EG = "f32" -> "f32"
            [] EG = "flex32" -> "f16"
            [] EG = "f16" -> "f16"
            [] EG = "bf16" -> "bf16"

\* tf32::is_supported(client)
tf32_is_supported(client) == client.device.tf32

Mutant_launch_declared_precision(client, EG, A, problem, plane_size, kernel) ==
    [ret |-> IF kernel = "Ok" THEN Ok ELSE Err(kernel, "-"),
     launch |-> [algorithm |-> A, precision |-> EG,
                 problem |-> problem, plane_size |-> plane_size]]

\* the result and the one kernel launch attempted
matmul_launch_kernel(client, EG, A, problem, plane_size, kernel) ==
    LET precision == IF requires_tensor_cores(A) /\ ES(EG) = "f32" /\ tf32_is_supported(client)
                     THEN "(f32, tf32, f32, f32)"
                     ELSE EG
    IN [ret |-> IF kernel = "Ok" THEN Ok ELSE Err(kernel, "-"),
        launch |-> [algorithm |-> A, precision |-> precision,
                    problem |-> problem, plane_size |-> plane_size]]

\* what a run did: its result, the precision it was specialised for, the
\* steps it went through, the MatmulProblem it built, its kernel launches
RunResult(ret, EG, steps, problem, launches) ==
    [ret |-> ret, eg |-> EG, steps |-> steps, problem |-> problem, launches |-> launches]

NoRun == RunResult(None, "-", <<>>, None, <<>>)

\* the match on config.ref_layout: None stands for its panicking arm
out_line_size_of(inputs, outputs, config) ==
    IF config.ref_layout.tag = "Concrete"
    THEN CASE config.ref_layout.arg = "Input" -> Some(inputs.ref_line_size)
           [] config.ref_layout.arg = "Output" -> Some(outputs.ref_line_size)
           [] OTHER -> None
    ELSE Some(1)

Mutant_line_size_check_and(out_line_size, lhs_line_size, rhs_line_size) ==
    out_line_size = 1 /\ (lhs_line_size > 1 /\ rhs_line_size > 1)

line_size_rejected(out_line_size, lhs_line_size, rhs_line_size) ==
    out_line_size = 1 /\ (lhs_line_size > 1 \/ rhs_line_size > 1)

Mutant_algorithm_of_always_simple(selector) == "SimpleAlgorithm<AcceleratedMatmul>"

algorithm_of(selector) ==
    CASE selector = "Simple" -> "SimpleAlgorithm<AcceleratedMatmul>"
      [] selector = "DoubleBuffering" -> "CyclicDoubleBufferingAlgorithm<AcceleratedMatmul>"

Mutant_plane_size_default(client) == Some(32)

\* client.properties().hardware_properties().defined_plane_size()
defined_plane_size(client) == client.device.plane_size

matmul_fused(self, client, inputs, outputs, config, EG, kernel) ==
    LET lhs_shape == inputs.lhs_shape
        rhs_shape == inputs.rhs_shape
        lhs_check == check_layout(inputs.lhs_layout)
        rhs_check == check_layout(inputs.rhs_layout)
        lhs_make_contiguous == lhs_check[1]
        lhs_transposed == lhs_check[2]
        rhs_make_contiguous == rhs_check[1]
        rhs_transposed == rhs_check[2]
        rank == Len(lhs_shape)
        lhs_line_size == inputs.lhs_line_size
        rhs_line_size == inputs.rhs_line_size
        resolved == out_line_size_of(inputs, outputs, config)
    IN
    IF lhs_make_contiguous \/ rhs_make_contiguous
    THEN RunResult(InvalidInput, EG, <<"check_layout">>, None, <<>>)
    ELSE IF rank < 2 \/ rank > Len(rhs_shape)
    THEN RunResult(Panic("index out of bounds"), EG, <<"check_layout">>, None, <<>>)
    ELSE
    LET m == AsU32(lhs_shape[rank - 1])
        k == AsU32(lhs_shape[rank])
        n == AsU32(rhs_shape[rank])
    IN
    IF resolved = None
    THEN RunResult(Panic("Invalid ref layout"), EG, <<"check_layout", "mkn">>, None, <<>>)
    ELSE
    LET out_line_size == resolved.val IN
    IF line_size_rejected(out_line_size, lhs_line_size, rhs_line_size)
    THEN RunResult(InvalidInput, EG, <<"check_layout", "mkn", "line_size">>, None, <<>>)
    ELSE
    LET problem == [m |-> AsUsize(m), n |-> AsUsize(n), k |-> AsUsize(k),
                    batches |-> <<SubSeq(lhs_shape, 1, Len(lhs_shape) - 2),
                                  SubSeq(rhs_shape, 1, Len(rhs_shape) - 2)>>,
                    lhs_layout |-> MatrixLayout(lhs_transposed),
                    rhs_layout |-> MatrixLayout(rhs_transposed),
                    lhs_line_size |-> lhs_line_size,
                    rhs_line_size |-> rhs_line_size,
                    out_line_size |-> out_line_size]
        plane_size == defined_plane_size(client)
        steps == <<"check_layout", "mkn", "line_size", "problem", "plane_size">>
    IN
    IF plane_size = None
    THEN RunResult(LaunchError(PlaneDimUnknown), EG, steps, Some(problem), <<>>)
    ELSE
    LET l == matmul_launch_kernel(client, EG, algorithm_of(self.selector),
                                  problem, plane_size.val, kernel)
    IN RunResult(IF l.ret = Ok THEN Ok ELSE LaunchError(l.ret.err), EG,
                 Append(steps, "launch"), Some(problem), <<l.launch>>)

Mutant_run_any_precision(self, client, inputs, outputs, configs, kernel) ==
    matmul_fused(self, client, inputs, outputs, configs[1], "f32", kernel)

\* <FusedMatmul as TraceRunner>::run
run(self, client, inputs, outputs, configs, kernel) ==
    CASE self.out.precision = "F32" ->
            matmul_fused(self, client, inputs, outputs, configs[1], "f32", kernel)
      [] self.out.precision = "Flex32" ->
            matmul_fused(self, client, inputs, outputs, configs[1], "flex32", kernel)
      [] self.out.precision = "F16" ->
            matmul_fused(self, client, inputs, outputs, configs[1], "f16", kernel)
      [] self.out.precision = "BF16" ->
            matmul_fused(self, client, inputs, outputs, configs[1], "bf16", kernel)
      [] OTHER -> RunResult(Panic("Unsupported precision"), "-", <<>>, None, <<>>)

(***************************************************************************)
(* RunSpec and ShapeSpec: one FusedMatmul::run call on drawn arguments.    *)
(***************************************************************************)
GlobalArgsInputs(ls, rs, ll, rl, lz, rz, fz) ==
    [lhs_shape |-> ls, rhs_shape |-> rs, lhs_layout |-> ll, rhs_layout |-> rl,
     lhs_line_size |-> lz, rhs_line_size |-> rz, ref_line_size |-> fz]

RunArgs(self, client, inputs, outputs, config, kernel) ==
    [self |-> self, client |-> client, inputs |-> inputs, outputs |-> outputs,
     configs |-> <<config>>, kernel |-> kernel]

\* the operand shapes of RunSpec: equal ranks, a shorter and a longer rhs
RunShapes ==
    {<<(<<Usize(0, 2), Usize(0, 3)>>), <<Usize(0, 3), Usize(0, 2)>> >>,
     <<(<<Usize(0, 2), Usize(0, 2), Usize(0, 3)>>), <<Usize(0, 3), Usize(0, 2)>> >>}

IdleCoord ==
    /\ features = [autotune |-> FALSE, checks |-> FALSE]
    /\ opt = None
    /\ saved = None
    /\ pc = "idle"
    /\ call = None
    /\ lastExecute = None

IdleMesh ==
    /\ builder = None
    /\ passed = {}
    /\ built = None

RunInit ==
    /\ \E p \in FusePrecisions, s \in FusedMatmulSelectors, c \in Clients,
          sh \in RunShapes, ll \in MatrixBatchLayouts, rl \in MatrixBatchLayouts,
          lz \in LineSizes, rz \in LineSizes, fi \in LineSizes, fo \in LineSizes,
          ref \in RefLayouts, kernel \in KernelOutcomes :
            runIn = RunArgs(FusedMatmul(p, s), c,
                            GlobalArgsInputs(sh[1], sh[2], ll, rl, lz, rz, fi),
                            [ref_line_size |-> fo], [ref_layout |-> ref], kernel)
    /\ runOut = NoRun
    /\ IdleCoord
    /\ IdleMesh

Run ==
    /\ runOut = NoRun
    /\ runOut' = run(runIn.self, runIn.client, runIn.inputs, runIn.outputs,
                     runIn.configs, runIn.kernel)
    /\ UNCHANGED <<runIn, coordVars, meshVars>>

RunNext == Run

RunSpec == RunInit /\ [][RunNext]_vars

\* every pair of operand shapes of rank 2..MaxRank, on inputs the checks accept
\* or reject by line size
ShapeInit ==
    /\ \E s \in FusedMatmulSelectors, c \in Clients,
          ls \in Shapes, rs \in Shapes,
          ll \in {Layout("Contiguous", FALSE, FALSE), Layout("MildlyPermuted", TRUE, FALSE)},
          lz \in LineSizes,
          ref \in {[tag |-> "Virtual", arg |-> "-"], [tag |-> "Concrete", arg |-> "Output"]} :
            runIn = RunArgs(FusedMatmul("F32", s), c,
                            GlobalArgsInputs(ls, rs, ll, Layout("Contiguous", FALSE, FALSE),
                                             lz, 1, 1),
                            [ref_line_size |-> 4], [ref_layout |-> ref], "Ok")
    /\ runOut = NoRun
    /\ IdleCoord
    /\ IdleMesh

ShapeSpec == ShapeInit /\ [][RunNext]_vars

(***************************************************************************)
(* MatmulOptimization, the coordinator.                                    *)
(***************************************************************************)
MaxLen == 2

\* a FuseTrace: what it runs and the outputs its resources declare
FuseTrace(kind, n) == [kind |-> kind, resources |-> [outputs |-> [i \in 1..n |-> i]]]

\* the closures execute is given; fallback(index) builds the operation
FallbackFns == {"f", "g"}

fallback_operation(fallback, index) == [fn |-> fallback, index |-> index]

\* Result<TuneOutput, TraceError<FusedMatmulError>>, the value of a call that
\* returns no Result, and a panic that unwinds out of a call
TraceOk == [tag |-> "Ok", err |-> "-", runner |-> Ok]
TraceErr(e, inner) == [tag |-> "Err", err |-> e, runner |-> inner]
Return == [tag |-> "Return", err |-> "-", runner |-> Ok]
Unwind(msg) == [tag |-> "Panic", err |-> msg, runner |-> Ok]

\* a step of a call: the selector of the unit or the fallback operation it
\* ran, and the result it had
Ev(ev, sel, op, ret) == [ev |-> ev, sel |-> sel, op |-> op, ret |-> ret]

\* what a call did: its result, its steps in order, its fused runs
Done(ret, events, runs) == [ret |-> ret, events |-> events, runs |-> runs]

\* the Context of a call: the tensors bound to the trace, and what the
\* services behind it answer
Context(inputs, outputs, config, kernel, fused_trace, fallback_trace, has_out_desc) ==
    [inputs |-> inputs, outputs |-> outputs, configs |-> <<config>>, kernel |-> kernel,
     fused_trace |-> fused_trace, fallback_trace |-> fallback_trace,
     has_out_desc |-> has_out_desc]

TraceOutcomes == {"Ok", "ReferenceNotFound"}

CoordShape == <<Usize(0, 2), Usize(0, 3)>>

\* the operands of the coordinator's calls: accepted, rejected for the lhs
\* layout, rejected for the lhs line size
CoordInputs ==
    {GlobalArgsInputs(CoordShape, CoordShape, ll, Layout("MildlyPermuted", TRUE, FALSE),
                      lz, 1, 1) :
        ll \in {Layout("Contiguous", FALSE, FALSE), Layout("HighlyPermuted", FALSE, FALSE)},
        lz \in LineSizes}
    \ {GlobalArgsInputs(CoordShape, CoordShape, Layout("HighlyPermuted", FALSE, FALSE),
                        Layout("MildlyPermuted", TRUE, FALSE), 4, 1, 1)}

\* what the kernel selection and the fused trace answer
FusedServices ==
    {[kernel |-> "Ok", fused_trace |-> "Ok"],
     [kernel |-> "InvalidConfig", fused_trace |-> "Ok"],
     [kernel |-> "Ok", fused_trace |-> "ReferenceNotFound"]}

Contexts ==
    {Context(i, [ref_line_size |-> 4], [ref_layout |-> [tag |-> "Virtual", arg |-> "-"]],
             sv.kernel, sv.fused_trace, bt, d) :
        i \in CoordInputs, sv \in FusedServices, bt \in TraceOutcomes, d \in BOOLEAN}

\* the contexts told apart by a fused entry point, and by execute_fallback
FusedContexts == {c \in Contexts : c.fallback_trace = "Ok" /\ c.has_out_desc}

FallbackContexts ==
    {c \in Contexts : /\ c.inputs.lhs_layout.tag = "Contiguous"
                      /\ c.inputs.lhs_line_size = 1
                      /\ c.kernel = "Ok"
                      /\ c.fused_trace = "Ok"}

Mutant_new_keeps_template(trace, trace_fallback, client, device, len, matmul) ==
    [trace |-> trace,
     trace_fallback |-> trace_fallback,
     client |-> client,
     device |-> device,
     len |-> len,
     matmul_simple |-> matmul,
     matmul_double_buffering |-> matmul,
     fallback |-> None]

\* MatmulOptimization::new
new(trace, trace_fallback, client, device, len, matmul) ==
    [trace |-> trace,
     trace_fallback |-> trace_fallback,
     client |-> client,
     device |-> device,
     len |-> len,
     matmul_simple |-> [matmul EXCEPT !.selector = "Simple"],
     matmul_double_buffering |-> [matmul EXCEPT !.selector = "DoubleBuffering"],
     fallback |-> None]

\* MatmulOptimization::num_ops_fused
num_ops_fused(self) == self.len

\* MatmulOptimization::num_output_buffers
num_output_buffers(self) == Len(self.trace_fallback.resources.outputs)

\* MatmulOptimization::to_state
to_state(self) ==
    [trace |-> self.trace,
     trace_fallback |-> self.trace_fallback,
     matmul_simple |-> self.matmul_simple,
     matmul_double_buffering |-> self.matmul_double_buffering,
     len |-> self.len]

Mutant_from_state_swaps_traces(device, state) ==
    [trace |-> state.trace_fallback,
     trace_fallback |-> state.trace,
     len |-> state.len,
     client |-> R_client(device),
     device |-> device,
     matmul_simple |-> state.matmul_simple,
     matmul_double_buffering |-> state.matmul_double_buffering,
     fallback |-> None]

\* MatmulOptimization::from_state
from_state(device, state) ==
    [trace |-> state.trace,
     trace_fallback |-> state.trace_fallback,
     len |-> state.len,
     client |-> R_client(device),
     device |-> device,
     matmul_simple |-> state.matmul_simple,
     matmul_double_buffering |-> state.matmul_double_buffering,
     fallback |-> None]

\* FuseTrace::run with a FusedMatmul as its runner: the trace fails on its
\* own account before the runner is called, or hands the runner the bound
\* arguments and wraps its error
trace_run_matmul(trace, client, device, context, runner) ==
    IF context.fused_trace # "Ok"
    THEN Done(TraceErr(context.fused_trace, Ok),
              <<Ev("fused_trace", runner.selector, None, TraceErr(context.fused_trace, Ok))>>,
              <<>>)
    ELSE LET r == run(runner, client, context.inputs, context.outputs, context.configs,
                      context.kernel)
             ret == CASE r.ret.tag = "Ok" -> TraceOk
                      [] r.ret.tag = "Err" -> TraceErr("RunnerError", r.ret)
                      [] r.ret.tag = "Panic" -> Unwind(r.ret.err)
         IN Done(ret, <<Ev("fused_trace", runner.selector, None, ret)>>,
                 <<[self |-> runner, client |-> client, inputs |-> context.inputs,
                    outputs |-> context.outputs, configs |-> context.configs, run |-> r]>>)

\* FuseTrace::run with the ElemwiseRunner as its runner
trace_run_elemwise(trace, client, device, context) ==
    IF context.fallback_trace = "Ok" THEN TraceOk
    ELSE TraceErr(context.fallback_trace, Ok)

\* MatmulOptimization::execute_simple_fused
execute_simple_fused(self, context) ==
    trace_run_matmul(self.trace, self.client, self.device, context, self.matmul_simple)

\* MatmulOptimization::execute_double_buffering_fused
execute_double_buffering_fused(self, context) ==
    trace_run_matmul(self.trace, self.client, self.device, context,
                     self.matmul_double_buffering)

\* the execute_standard_fused that execute calls in a build without autotune:
\* it runs the fused trace with the Simple unit
execute_standard_fused(self, context) ==
    trace_run_matmul(self.trace, self.client, self.device, context, self.matmul_simple)

Mutant_unwrap_or_default(result) == FALSE

\* Result::unwrap on the result of the fallback trace: does it panic
unwrap_panics(result) == result.tag = "Err"

Mutant_execute_fallback_trace_first(self, context, feat) ==
    IF self.fallback = None
    THEN Done(Unwind("A fallback operation should be available"), <<>>, <<>>)
    ELSE
    LET output_write == trace_run_elemwise(self.trace_fallback, self.client, self.device,
                                           context)
        events == <<Ev("fallback_trace", "-", None, output_write),
                    Ev("fallback_op", "-", self.fallback, Return)>>
    IN
    IF unwrap_panics(output_write)
    THEN Done(Unwind("Result::unwrap on Err"), events, <<>>)
    ELSE Done(Return, events, <<>>)

Mutant_execute_fallback_skips_unset(self, context, feat) ==
    LET ran == IF self.fallback = None THEN <<>>
               ELSE <<Ev("fallback_op", "-", self.fallback, Return)>>
        output_write == trace_run_elemwise(self.trace_fallback, self.client, self.device,
                                           context)
        events == Append(ran, Ev("fallback_trace", "-", None, output_write))
    IN
    IF unwrap_panics(output_write)
    THEN Done(Unwind("Result::unwrap on Err"), events, <<>>)
    ELSE Done(Return, events, <<>>)

\* MatmulOptimization::execute_fallback
execute_fallback(self, context, feat) ==
    IF self.fallback = None
    THEN Done(Unwind("A fallback operation should be available"), <<>>, <<>>)
    ELSE
    LET ran == <<Ev("fallback_op", "-", self.fallback, Return)>> IN
    IF feat.checks /\ ~context.has_out_desc
    THEN Done(Unwind("Option::unwrap on None"), ran, <<>>)
    ELSE
    LET recorded == IF feat.checks
                    THEN Append(ran, Ev("record_handle", "-", None, Return))
                    ELSE ran
        output_write == trace_run_elemwise(self.trace_fallback, self.client, self.device,
                                           context)
        events == Append(recorded, Ev("fallback_trace", "-", None, output_write))
    IN
    IF unwrap_panics(output_write)
    THEN Done(Unwind("Result::unwrap on Err"), events, <<>>)
    ELSE Done(Return, events, <<>>)

Mutant_capture_once(self, fallback) ==
    IF self.fallback = None
    THEN [self EXCEPT !.fallback = Some(fallback_operation(fallback, 0))]
    ELSE self

\* execute, its first statement: self.fallback = Some(fallback(0))
capture(self, fallback) ==
    [self EXCEPT !.fallback = Some(fallback_operation(fallback, 0))]

Mutant_is_err_never(result) == FALSE

\* Result::is_err on the result of execute_standard_fused
is_err(result) == result.tag = "Err"

\* MatmulOptimization::execute in a build without autotune: the coordinator
\* it leaves and what the call did
execute(self, context, fallback, feat) ==
    LET captured == capture(self, fallback)
        first == <<Ev("capture", "-", captured.fallback, Return)>>
        fused == execute_standard_fused(captured, context)
    IN
    IF fused.ret.tag = "Panic"
    THEN [self |-> captured, done |-> Done(fused.ret, first \o fused.events, fused.runs)]
    ELSE IF is_err(fused.ret)
    THEN LET fb == execute_fallback(captured, context, feat)
         IN [self |-> captured,
             done |-> Done(IF fb.ret.tag = "Panic" THEN fb.ret ELSE Return,
                           first \o fused.events \o fb.events, fused.runs)]
    ELSE [self |-> captured, done |-> Done(Return, first \o fused.events, fused.runs)]

\* MatmulOptimization::execute in a build with autotune, up to the call of
\* fused_matmul_autotune
execute_autotune(self, context, fallback, feat) ==
    LET captured == capture(self, fallback)
    IN [self |-> captured,
        done |-> Done(Return, <<Ev("capture", "-", captured.fallback, Return),
                                Ev("autotune", "-", None, Return)>>, <<>>)]

(***************************************************************************)
(* Spec: calls on one coordinator.                                         *)
(***************************************************************************)
Call(op, arg, before, done, value) ==
    [op |-> op, arg |-> arg, before |-> before, ret |-> done.ret,
     events |-> done.events, runs |-> done.runs, value |-> value]

IdleRun ==
    /\ runIn = None
    /\ runOut = NoRun

Init ==
    /\ \E p \in FusePrecisions, s \in FusedMatmulSelectors, d \in Devices,
          len \in 1..MaxLen :
            opt = new(FuseTrace("matmul", 1), FuseTrace("elemwise", 2), R_client(d), d, len,
                      FusedMatmul(p, s))
    /\ features \in [autotune : BOOLEAN, checks : BOOLEAN]
    /\ saved = None
    /\ pc = "idle"
    /\ call = Call("new", "-", opt, Done(Return, <<>>, <<>>), 0)
    /\ lastExecute = None
    /\ IdleRun
    /\ IdleMesh

After(done) == IF done.ret.tag = "Panic" THEN "aborted" ELSE pc

Execute ==
    /\ pc = "idle"
    /\ ~features.autotune
    /\ \E context \in Contexts, fallback \in FallbackFns :
        \E e \in {execute(opt, context, fallback, features)} :
           /\ opt' = e.self
           /\ call' = Call("execute", fallback, opt, e.done, 0)
           /\ lastExecute' = Some(fallback)
           /\ pc' = After(e.done)
    /\ UNCHANGED <<features, saved, runVars, meshVars>>

ExecuteAutotune ==
    /\ pc = "idle"
    /\ features.autotune
    /\ \E context \in FallbackContexts, fallback \in FallbackFns :
        \E e \in {execute_autotune(opt, context, fallback, features)} :
           /\ opt' = e.self
           /\ call' = Call("execute", fallback, opt, e.done, 0)
           /\ lastExecute' = Some(fallback)
           /\ pc' = "tuning"
    /\ UNCHANGED <<features, saved, runVars, meshVars>>

\* fused_matmul_autotune returns, and execute with it
AutotuneReturns ==
    /\ pc = "tuning"
    /\ pc' = "idle"
    /\ UNCHANGED <<features, opt, saved, call, lastExecute, runVars, meshVars>>

ExecuteSimpleFused ==
    /\ pc \in {"idle", "tuning"}
    /\ \E context \in FusedContexts :
        \E done \in {execute_simple_fused(opt, context)} :
           /\ call' = Call("execute_simple_fused", "-", opt, done, 0)
           /\ pc' = After(done)
    /\ UNCHANGED <<features, opt, saved, lastExecute, runVars, meshVars>>

ExecuteDoubleBufferingFused ==
    /\ pc \in {"idle", "tuning"}
    /\ \E context \in FusedContexts :
        \E done \in {execute_double_buffering_fused(opt, context)} :
           /\ call' = Call("execute_double_buffering_fused", "-", opt, done, 0)
           /\ pc' = After(done)
    /\ UNCHANGED <<features, opt, saved, lastExecute, runVars, meshVars>>

Mutant_ExecuteFallback_takes_operation ==
    /\ pc \in {"idle", "tuning"}
    /\ \E context \in FallbackContexts :
        \E done \in {execute_fallback(opt, context, features)} :
           /\ call' = Call("execute_fallback", "-", opt, done, 0)
           /\ pc' = After(done)
    /\ opt' = [opt EXCEPT !.fallback = None]
    /\ UNCHANGED <<features, saved, lastExecute, runVars, meshVars>>

ExecuteFallback ==
    /\ pc \in {"idle", "tuning"}
    /\ \E context \in FallbackContexts :
        \E done \in {execute_fallback(opt, context, features)} :
           /\ call' = Call("execute_fallback", "-", opt, done, 0)
           /\ pc' = After(done)
    /\ UNCHANGED <<features, opt, saved, lastExecute, runVars, meshVars>>

NumOpsFused ==
    /\ pc \in {"idle", "tuning"}
    /\ call' = Call("num_ops_fused", "-", opt, Done(Return, <<>>, <<>>), num_ops_fused(opt))
    /\ UNCHANGED <<features, opt, saved, pc, lastExecute, runVars, meshVars>>

NumOutputBuffers ==
    /\ pc \in {"idle", "tuning"}
    /\ call' = Call("num_output_buffers", "-", opt, Done(Return, <<>>, <<>>),
                    num_output_buffers(opt))
    /\ UNCHANGED <<features, opt, saved, pc, lastExecute, runVars, meshVars>>

ToState ==
    /\ pc \in {"idle", "tuning"}
    /\ saved' = Some(to_state(opt))
    /\ call' = Call("to_state", "-", opt, Done(Return, <<>>, <<>>), 0)
    /\ UNCHANGED <<features, opt, pc, lastExecute, runVars, meshVars>>

FromState ==
    /\ pc = "idle"
    /\ saved # None
    /\ \E device \in Devices :
        /\ opt' = from_state(device, saved.val)
        /\ call' = Call("from_state", device, opt, Done(Return, <<>>, <<>>), 0)
    /\ UNCHANGED <<features, saved, pc, lastExecute, runVars, meshVars>>

Next ==
    \/ Execute
    \/ ExecuteAutotune
    \/ AutotuneReturns
    \/ ExecuteSimpleFused
    \/ ExecuteDoubleBufferingFused
    \/ ExecuteFallback
    \/ NumOpsFused
    \/ NumOutputBuffers
    \/ ToState
    \/ FromState

Spec == Init /\ [][Next]_vars

(***************************************************************************)
(* Properties of the coordinator.                                          *)
(***************************************************************************)
\* the steps of the last call that are of the given kind
Steps(ev) == {i \in 1..Len(call.events) : call.events[i].ev = ev}

ExecutedNoAutotune == call.op = "execute" /\ ~features.autotune

\* the result of the fused attempt of a non-autotuned execute
FusedRet == call.events[2].ret

\* the fallback path of the last call ran to its end: the fallback trace ran
\* and returned Ok
FallbackCompleted == \E i \in Steps("fallback_trace") : call.events[i].ret = TraceOk

FallbackPanics == {Unwind("Result::unwrap on Err"), Unwind("Option::unwrap on None")}

C3_FallbackIsCallScoped ==
    /\ call.op = "execute" =>
        /\ opt.fallback = Some(fallback_operation(call.arg, 0))
        /\ lastExecute = Some(call.arg)
        /\ call.events[1].ev = "capture"
        /\ call.events[1].op = opt.fallback
        /\ Steps("capture") = {1}
    /\ \A i \in Steps("fallback_op") :
        /\ lastExecute # None
        /\ call.events[i].op = Some(fallback_operation(lastExecute.val, 0))

C3_Witness ==
    /\ call.op = "execute"
    /\ call.before.fallback = Some(fallback_operation("f", 0))
    /\ call.arg = "g"
    /\ \E i \in Steps("fallback_op") : call.events[i].op = Some(fallback_operation("g", 0))

\* C4: for a coordinator c, whatever its fallback field holds and after any
\* calls, from_state(device, c.to_state()) is a coordinator with c's fused
\* trace, fallback trace, Simple unit, DoubleBuffering unit and fused-op
\* count, bound to the given device and its client, with no fallback
\* operation; num_ops_fused and num_output_buffers return the same on both;
\* and to_state leaves c as it was.
C4_StateRoundTrip ==
    /\ call.op = "from_state" =>
        LET c == call.before
        IN /\ saved = Some(to_state(c))
           /\ opt.trace = c.trace
           /\ opt.trace_fallback = c.trace_fallback
           /\ opt.matmul_simple = c.matmul_simple
           /\ opt.matmul_double_buffering = c.matmul_double_buffering
           /\ opt.len = c.len
           /\ opt.fallback = None
           /\ opt.device = call.arg
           /\ opt.client = R_client(call.arg)
           /\ num_ops_fused(opt) = num_ops_fused(c)
           /\ num_output_buffers(opt) = num_output_buffers(c)
    /\ call.op = "to_state" => (opt = call.before /\ saved = Some(to_state(opt)))

C4_Witness ==
    /\ call.op = "from_state"
    /\ call.before.fallback # None
    /\ call.before.device # opt.device
    /\ opt.fallback = None
    /\ opt.trace # opt.trace_fallback

FallbackCalledWithOperation == call.op = "execute_fallback" /\ call.before.fallback # None

PlaneUnknownRuns ==
    {i \in 1..Len(call.runs) :
        LET r == call.runs[i]
            out_line_size ==
                CASE r.configs[1].ref_layout.tag = "Virtual" -> 1
                  [] r.configs[1].ref_layout.arg = "Input" -> r.inputs.ref_line_size
                  [] r.configs[1].ref_layout.arg = "Output" -> r.outputs.ref_line_size
                  [] OTHER -> 0
        IN /\ call.before.device.plane_size = None
           /\ r.self.out.precision \in SupportedPrecisions
           /\ r.inputs.lhs_layout.tag # "HighlyPermuted"
           /\ r.inputs.rhs_layout.tag # "HighlyPermuted"
           /\ out_line_size > 0
           /\ ~(out_line_size = 1
                /\ (r.inputs.lhs_line_size > 1 \/ r.inputs.rhs_line_size > 1))}

PlaneUnknownError == TraceErr("RunnerError", LaunchError(PlaneDimUnknown))

LaunchedAlgorithms ==
    UNION {{call.runs[i].run.launches[j].algorithm :
                j \in 1..Len(call.runs[i].run.launches)} :
           i \in 1..Len(call.runs)}

\* C11: in every state of a coordinator built by new, whatever selector the
\* template unit carried and after any calls and state round trips,
\* matmul_simple has selector Simple and matmul_double_buffering has selector
\* DoubleBuffering, in the coordinator and in a saved state; every fused run
\* of execute_simple_fused is given the Simple unit and launches only the
\* single-buffered algorithm, every fused run of
\* execute_double_buffering_fused the DoubleBuffering unit and only the
\* cyclic double-buffered algorithm.
C11_SelectorsAreFixed ==
    /\ opt.matmul_simple.selector = "Simple"
    /\ opt.matmul_double_buffering.selector = "DoubleBuffering"
    /\ saved # None =>
        /\ saved.val.matmul_simple.selector = "Simple"
        /\ saved.val.matmul_double_buffering.selector = "DoubleBuffering"
    /\ call.op = "execute_simple_fused" =>
        /\ \A i \in 1..Len(call.runs) : call.runs[i].self = call.before.matmul_simple
        /\ LaunchedAlgorithms \subseteq {"SimpleAlgorithm<AcceleratedMatmul>"}
    /\ call.op = "execute_double_buffering_fused" =>
        /\ \A i \in 1..Len(call.runs) :
                call.runs[i].self = call.before.matmul_double_buffering
        /\ LaunchedAlgorithms \subseteq {"CyclicDoubleBufferingAlgorithm<AcceleratedMatmul>"}

\* a double-buffered launch on a coordinator restored from a saved state
\* after an execute call
C11_Witness ==
    /\ call.op = "execute_double_buffering_fused"
    /\ LaunchedAlgorithms = {"CyclicDoubleBufferingAlgorithm<AcceleratedMatmul>"}
    /\ lastExecute # None
    /\ call.before.fallback = None
    /\ saved # None

\* C14: execute_fallback on a coordinator whose fallback operation is unset,
\* as new and from_state leave it until an execute call, panics for the
\* missing operation before the fallback operation, the output record or the
\* fallback trace: it returns neither a value nor a typed error, and the
\* coordinator makes no further call.
C14_UnsetFallbackIsFatal ==
    /\ call.op \in {"new", "from_state"} => opt.fallback = None
    /\ (call.op = "execute_fallback" /\ call.before.fallback = None) =>
        /\ call.ret = Unwind("A fallback operation should be available")
        /\ call.events = <<>>
        /\ call.runs = <<>>
        /\ pc = "aborted"

\* the unset operation of a coordinator restored after an execute call
C14_Witness ==
    /\ call.op = "execute_fallback"
    /\ call.before.fallback = None
    /\ lastExecute # None
    /\ saved # None
    /\ call.ret.tag = "Panic"

\* the last call entered execute_fallback with the fallback operation set
FallbackEntered ==
    \/ FallbackCalledWithOperation
    \/ ExecutedNoAutotune /\ FusedRet.tag = "Err"

SharedRefCalls ==
    {"num_ops_fused", "num_output_buffers", "to_state", "execute_simple_fused",
     "execute_double_buffering_fused", "execute_fallback"}

\* C21: num_ops_fused, num_output_buffers, to_state, execute_simple_fused,
\* execute_double_buffering_fused and execute_fallback leave the coordinator
\* (both traces, both units, fused-op count, captured fallback operation,
\* client and device) as it was before the call, whether the call returns
\* Ok, returns an error or panics; the fused runs of the entry points are
\* given the coordinator's client and units and the fallback path its
\* captured operation; num_ops_fused returns the stored count and
\* num_output_buffers the number of outputs the fallback trace declares.
C21_SharedRefCallsKeepState ==
    /\ call.op \in SharedRefCalls =>
        /\ opt = call.before
        /\ \A i \in 1..Len(call.runs) :
            /\ call.runs[i].client = opt.client
            /\ call.runs[i].self \in {opt.matmul_simple, opt.matmul_double_buffering}
        /\ \A i \in Steps("fallback_op") : call.events[i].op = opt.fallback
    /\ call.op = "num_ops_fused" => call.value = opt.len
    /\ call.op = "num_output_buffers" =>
            call.value = Len(opt.trace_fallback.resources.outputs)
    /\ call.op # "to_state" /\ saved # None => saved.val = to_state(opt)

\* an entry point called by the autotuner returns an error and the captured
\* fallback operation is still there
C21_Witness ==
    /\ call.op = "execute_double_buffering_fused"
    /\ pc = "tuning"
    /\ call.ret.tag = "Err"
    /\ opt.fallback = Some(fallback_operation("g", 0))
    /\ opt = call.before

(***************************************************************************)
(* DeviceMeshBuilder (sharding/mesh.rs).                                   *)
(***************************************************************************)
MaxDevices == 4

MaxNdim == 2

MaxSize == 2

\* the names of the MeshDims given to with_dim
MeshDimNames == {"x", "y", "z"}

\* Result<DeviceMesh<T>, DeviceMeshError>
MeshOk(mesh) == [tag |-> "Ok", error |-> "-", msg |-> "-", mesh |-> Some(mesh)]
MeshErr(error, msg) == [tag |-> "Err", error |-> error, msg |-> msg, mesh |-> None]

\* build unwinds with a panic instead of returning
MeshPanic(msg) == [tag |-> "Panic", error |-> "-", msg |-> msg, mesh |-> None]

\* the sizes of a mesh shape: usize values, 2^32 among them
MeshSizes == {Usize(0, size) : size \in 0..MaxSize} \cup {Usize(1, 0)}

\* HashMap::new and HashMap::insert, a map being a function on its keys
EmptyMap == [key \in {} |-> 0]

insert(map, key, value) ==
    [x \in DOMAIN map \cup {key} |-> IF x = key THEN value ELSE map[x]]

\* vec![0, 1, ..]: n devices
DeviceVec(n) == [i \in 1..n |-> i - 1]

\* DeviceMeshBuilder::new
mesh_new(devices, shape) == [devices |-> devices, shape |-> shape, dims |-> EmptyMap]

Mutant_with_dim_keeps_first(self, idx, dim) ==
    IF dim \in DOMAIN self.dims THEN self
    ELSE [self EXCEPT !.dims = insert(self.dims, dim, idx)]

\* DeviceMeshBuilder::with_dim
with_dim(self, idx, dim) == [self EXCEPT !.dims = insert(self.dims, dim, idx)]

\* the orders in which self.dims.values() can visit the map
IterationOrders(map) ==
    {o \in [1..Cardinality(DOMAIN map) -> DOMAIN map] :
        \A i, j \in 1..Cardinality(DOMAIN map) : o[i] = o[j] => i = j}

Mutant_check_indices_no_bound(values, i, ndim, seen_indices) ==
    IF \E j, k \in 1..Len(values) : j # k /\ values[j] = values[k]
    THEN [error |-> Some(MeshErr("InvalidDimension", "Dimension already mapped")),
          seen_indices |-> seen_indices]
    ELSE [error |-> None, seen_indices |-> {values[j] : j \in 1..Len(values)}]

Mutant_check_indices_no_seen(values, i, ndim, seen_indices) ==
    IF \E j \in 1..Len(values) : values[j] >= ndim
    THEN [error |-> Some(MeshErr("InvalidDimension", "Index exceeds mesh shape")),
          seen_indices |-> seen_indices]
    ELSE [error |-> None, seen_indices |-> {values[j] : j \in 1..Len(values)}]

\* build's loop over self.dims.values(), from the i-th value on
RECURSIVE check_indices(_, _, _, _)
check_indices(values, i, ndim, seen_indices) ==
    IF i > Len(values) THEN [error |-> None, seen_indices |-> seen_indices]
    ELSE IF values[i] >= ndim
    THEN [error |-> Some(MeshErr("InvalidDimension", "Index exceeds mesh shape")),
          seen_indices |-> seen_indices]
    ELSE IF values[i] \in seen_indices
    THEN [error |-> Some(MeshErr("InvalidDimension", "Dimension already mapped")),
          seen_indices |-> seen_indices]
    ELSE check_indices(values, i + 1, ndim, seen_indices \cup {values[i]})

\* a * b on usize, both words of a and of b below 2^16: the product modulo
\* 2^64 and whether the multiplication overflowed
usize_mul(a, b) ==
    LET lo == a.lo * b.lo
        hi == a.hi * b.lo + a.lo * b.hi
    IN [value |-> Usize(hi, lo), overflow |-> a.hi * b.hi > 0]

\* self.shape.iter().product::<usize>(): the fold of * from 1 over the sizes
\* from the i-th on, and whether a multiplication of it overflowed
RECURSIVE product(_, _, _)
product(shape, i, acc) ==
    IF i > Len(shape) THEN acc
    ELSE LET next == usize_mul(acc.value, shape[i])
         IN product(shape, i + 1,
                    [value |-> next.value, overflow |-> acc.overflow \/ next.overflow])

Mutant_build_counts_devices_first(self, order, overflow_checks) ==
    LET ndim == Len(self.shape)
        values == [i \in 1..Len(order) |-> self.dims[order[i]]]
        loop == check_indices(values, 1, ndim, {})
        expected_devices == product(self.shape, 1, [value |-> Usize(0, 1), overflow |-> FALSE])
    IN
    IF loop.error # None THEN loop.error.val
    ELSE IF expected_devices.overflow /\ overflow_checks
    THEN MeshPanic("attempt to multiply with overflow")
    ELSE IF Usize(0, Len(self.devices)) # expected_devices.value
    THEN MeshErr("InvalidMesh", "Device count doesn't match mesh shape")
    ELSE IF Cardinality(loop.seen_indices) # ndim
    THEN MeshErr("InvalidMesh", "Not all mesh dimensions are mapped")
    ELSE MeshOk([devices |-> self.devices, shape |-> self.shape, dims |-> self.dims])

\* DeviceMeshBuilder::build, the map visited in the given order, in a build
\* with or without overflow checks
build(self, order, overflow_checks) ==
    LET ndim == Len(self.shape)
        values == [i \in 1..Len(order) |-> self.dims[order[i]]]
        loop == check_indices(values, 1, ndim, {})
        expected_devices == product(self.shape, 1, [value |-> Usize(0, 1), overflow |-> FALSE])
    IN
    IF loop.error # None THEN loop.error.val
    ELSE IF Cardinality(loop.seen_indices) # ndim
    THEN MeshErr("InvalidMesh", "Not all mesh dimensions are mapped")
    ELSE IF expected_devices.overflow /\ overflow_checks
    THEN MeshPanic("attempt to multiply with overflow")
    ELSE IF Usize(0, Len(self.devices)) # expected_devices.value
    THEN MeshErr("InvalidMesh", "Device count doesn't match mesh shape")
    ELSE MeshOk([devices |-> self.devices, shape |-> self.shape, dims |-> self.dims])

(***************************************************************************)
(* MeshSpec: a builder, with_dim calls on it, then build.                  *)
(***************************************************************************)
MeshInit ==
    /\ \E n \in 0..MaxDevices, shape \in UNION {[1..r -> MeshSizes] : r \in 0..MaxNdim} :
            builder = mesh_new(DeviceVec(n), shape)
    /\ passed = {}
    /\ built = None
    /\ IdleRun
    /\ IdleCoord

WithDim ==
    /\ built = None
    /\ Cardinality(passed) < Cardinality(MeshDimNames)
    /\ \E idx \in 0..MaxNdim, dim \in MeshDimNames :
        /\ builder' = with_dim(builder, idx, dim)
        /\ passed' = passed \cup {<<idx, dim>>}
    /\ UNCHANGED <<built, runVars, coordVars>>

Build ==
    /\ built = None
    /\ \E order \in IterationOrders(builder.dims), overflow_checks \in BOOLEAN :
        built' = Some(build(builder, order, overflow_checks))
    /\ UNCHANGED <<builder, passed, runVars, coordVars>>

MeshNext == WithDim \/ Build

MeshSpec == MeshInit /\ [][MeshNext]_vars

(***************************************************************************)
(* Properties of the device mesh builder.                                  *)
(***************************************************************************)
SameNameForTwoIndices ==
    \E a \in passed, b \in passed : a[2] = b[2] /\ a[1] # b[1]

\* C10: a mesh uses a unique name for each dimension: when with_dim was given
\* the same dimension name for two different indices, build returns an error
\* and never Ok.
C10_SameNameIsRejected ==
    (built # None /\ SameNameForTwoIndices) => built.val.tag = "Err"

(***************************************************************************)
(* Properties of one fused run.                                            *)
(***************************************************************************)
Ran == runOut # NoRun

RanSupported == Ran /\ runIn.self.out.precision \in SupportedPrecisions

AnyHighlyPermuted ==
    \/ runIn.inputs.lhs_layout.tag = "HighlyPermuted"
    \/ runIn.inputs.rhs_layout.tag = "HighlyPermuted"

\* C2: a fused run, with either selector and any supported precision, whose
\* lhs or rhs strides classify as HighlyPermuted returns InvalidInput; it
\* builds no problem, attempts no kernel launch and goes through no step
\* other than the layout check (it makes no operand contiguous).
C2_HighlyPermutedIsInvalidInput ==
    (RanSupported /\ AnyHighlyPermuted) =>
        /\ runOut.ret = InvalidInput
        /\ runOut.launches = <<>>
        /\ runOut.problem = None
        /\ runOut.steps = <<"check_layout">>

C2_Witness ==
    /\ RanSupported
    /\ runIn.self.selector = "DoubleBuffering"
    /\ runIn.inputs.lhs_layout.tag = "Contiguous"
    /\ runIn.inputs.rhs_layout.tag = "HighlyPermuted"
    /\ runIn.client.device.plane_size # None
    /\ runOut.ret = InvalidInput

\* the output line size as the claims state it: the line size the concrete
\* reference operand is bound with, 1 for a Virtual reference layout
ClaimedOutLineSize ==
    CASE runIn.configs[1].ref_layout.tag = "Virtual" -> 1
      [] runIn.configs[1].ref_layout.arg = "Input" -> runIn.inputs.ref_line_size
      [] runIn.configs[1].ref_layout.arg = "Output" -> runIn.outputs.ref_line_size
      [] OTHER -> 0

\* the run gets as far as resolving the output line size: the precision is
\* supported, the operand shapes can be indexed and the reference operand is
\* an input or an output
OutLineSizeResolved ==
    /\ RanSupported
    /\ Len(runIn.inputs.rhs_shape) >= Len(runIn.inputs.lhs_shape)
    /\ runIn.configs[1].ref_layout.arg # "Scalar"

\* C7: in a fused run that resolves the output line size, an output line
\* size of 1 with an lhs or rhs line size above 1 makes the run return
\* InvalidInput with no MatmulProblem built and no kernel launch; with an
\* output line size above 1, or both input line sizes 1, and layouts that are
\* accepted, the run is not rejected there: it goes on to build the problem.
C7_LineSizeCheck ==
    OutLineSizeResolved =>
        IF ClaimedOutLineSize = 1
           /\ (runIn.inputs.lhs_line_size > 1 \/ runIn.inputs.rhs_line_size > 1)
        THEN /\ runOut.ret = InvalidInput
             /\ runOut.problem = None
             /\ runOut.launches = <<>>
        ELSE ~AnyHighlyPermuted =>
                /\ runOut.problem # None
                /\ runOut.ret # InvalidInput

C7_Witness ==
    /\ OutLineSizeResolved
    /\ ~AnyHighlyPermuted
    /\ runIn.configs[1].ref_layout.tag = "Virtual"
    /\ runIn.inputs.lhs_line_size = 4
    /\ runIn.inputs.rhs_line_size = 1
    /\ runOut.ret = InvalidInput
    /\ runOut.steps = <<"check_layout", "mkn", "line_size">>

\* the precision of the launch logic each FusePrecision selects
ClaimedPrecision(p) ==
    CASE p = "F32" -> "f32"
      [] p = "Flex32" -> "flex32"
      [] p = "F16" -> "f16"
      [] p = "BF16" -> "bf16"

\* C8: run branches on the precision of the output operand: F32, Flex32, F16
\* and BF16 reach the launch logic of that same precision and never the
\* panic; every other precision panics with "Unsupported precision" before
\* any validation step, problem or kernel launch, and returns neither Ok nor
\* an error.
C8_PrecisionDispatch ==
    Ran =>
        IF runIn.self.out.precision \in SupportedPrecisions
        THEN /\ runOut.eg = ClaimedPrecision(runIn.self.out.precision)
             /\ runOut.ret # Panic("Unsupported precision")
             /\ runOut.steps # <<>>
             /\ \A i \in 1..Len(runOut.launches) :
                    runOut.launches[i].precision
                        \in {runOut.eg, "(f32, tf32, f32, f32)"}
        ELSE /\ runOut.ret = Panic("Unsupported precision")
             /\ runOut.steps = <<>>
             /\ runOut.problem = None
             /\ runOut.launches = <<>>

C8_Witness ==
    /\ Ran
    /\ runIn.self.out.precision = "Bool"
    /\ ~AnyHighlyPermuted
    /\ runIn.client.device.plane_size # None
    /\ runOut.ret.tag = "Panic"

AllWithin32Bits(shape) == \A i \in 1..Len(shape) : shape[i].hi = 0

PassesValidation ==
    /\ RanSupported
    /\ ~AnyHighlyPermuted
    /\ runIn.configs[1].ref_layout.arg # "Scalar"
    /\ ~(ClaimedOutLineSize = 1
         /\ (runIn.inputs.lhs_line_size > 1 \/ runIn.inputs.rhs_line_size > 1))

\* C9: for lhs and rhs shapes of rank >= 2 with dimensions within 32 bits
\* that pass validation, equal ranks or not, the MatmulProblem has m = the
\* second-to-last dimension of lhs, k = the last dimension of lhs, n = the
\* last dimension of rhs and batches = (the dimensions of lhs before its last
\* two, the dimensions of rhs before its last two).
C9_ProblemDimensions ==
    LET lhs == runIn.inputs.lhs_shape
        rhs == runIn.inputs.rhs_shape
    IN (PassesValidation /\ AllWithin32Bits(lhs) /\ AllWithin32Bits(rhs)) =>
        /\ runOut.problem # None
        /\ runOut.problem.val.m = lhs[Len(lhs) - 1]
        /\ runOut.problem.val.k = lhs[Len(lhs)]
        /\ runOut.problem.val.n = rhs[Len(rhs)]
        /\ runOut.problem.val.batches = <<SubSeq(lhs, 1, Len(lhs) - 2),
                                          SubSeq(rhs, 1, Len(rhs) - 2)>>

\* the matmul layout the claims state for an accepted stride layout
ClaimedMatrixLayout(layout) ==
    IF layout.tag = "MildlyPermuted" /\ layout.transposed THEN "ColMajor" ELSE "RowMajor"

\* C12: in a fused run whose lhs and rhs stride layouts are both accepted
\* (Contiguous or MildlyPermuted), no operand is rejected for its layout; the
\* MatmulProblem, which is built whenever the shapes can be indexed and the
\* line sizes are accepted, gives each operand on its own RowMajor when it is
\* Contiguous, ColMajor when it is MildlyPermuted with transposed true and
\* RowMajor when MildlyPermuted with transposed false, whatever batch_swap
\* is, and carries the lhs and rhs line sizes bound in the inputs; a launch
\* is given that same problem.
C12_LayoutToMatrixLayout ==
    (RanSupported /\ ~AnyHighlyPermuted) =>
        /\ ~(runOut.ret = InvalidInput /\ runOut.steps = <<"check_layout">>)
        /\ (OutLineSizeResolved
            /\ ~(ClaimedOutLineSize = 1
                 /\ (runIn.inputs.lhs_line_size > 1 \/ runIn.inputs.rhs_line_size > 1)))
                => runOut.problem # None
        /\ runOut.problem # None =>
            /\ runOut.problem.val.lhs_layout = ClaimedMatrixLayout(runIn.inputs.lhs_layout)
            /\ runOut.problem.val.rhs_layout = ClaimedMatrixLayout(runIn.inputs.rhs_layout)
            /\ runOut.problem.val.lhs_line_size = runIn.inputs.lhs_line_size
            /\ runOut.problem.val.rhs_line_size = runIn.inputs.rhs_line_size
            /\ \A i \in 1..Len(runOut.launches) :
                    runOut.launches[i].problem = runOut.problem.val

C12_Witness ==
    /\ RanSupported
    /\ runIn.inputs.lhs_layout = Layout("MildlyPermuted", FALSE, TRUE)
    /\ runIn.inputs.rhs_layout = Layout("MildlyPermuted", TRUE, FALSE)
    /\ runIn.inputs.lhs_line_size = 1
    /\ runIn.inputs.rhs_line_size = 4
    /\ runOut.ret = Ok
    /\ Len(runOut.launches) = 1
    /\ runOut.problem.val.lhs_layout = "RowMajor"
    /\ runOut.problem.val.rhs_layout = "ColMajor"
    /\ runOut.problem.val.rhs_line_size = 4

\* the run got as far as the dispatcher
Dispatched == RanSupported /\ "launch" \in {runOut.steps[i] : i \in 1..Len(runOut.steps)}

\* C19: a run that reaches the dispatcher attempts exactly one kernel launch,
\* with the problem the run built and the plane size of the device, and a run
\* that does not reach it attempts none. The launch is of the tf32 kernel
\* (f32, tf32, f32, f32) exactly when the algorithm's tile matmul requires
\* tensor cores, the element type of the declared precision is f32 and the
\* device reports tf32 support; in every other combination, Flex32 on a
\* tf32 device among them, it is of exactly the declared precision. The
\* result of the launch is the result of the run.
C19_Tf32Dispatch ==
    RanSupported =>
        /\ Len(runOut.launches) = (IF Dispatched THEN 1 ELSE 0)
        /\ Dispatched =>
            LET l == runOut.launches[1]
                accelerated == l.algorithm \in {"SimpleAlgorithm<AcceleratedMatmul>",
                                                "CyclicDoubleBufferingAlgorithm<AcceleratedMatmul>"}
            IN /\ l.precision =
                    IF /\ accelerated
                       /\ runIn.self.out.precision = "F32"
                       /\ runIn.client.device.tf32
                    THEN "(f32, tf32, f32, f32)"
                    ELSE ClaimedPrecision(runIn.self.out.precision)
               /\ l.problem = runOut.problem.val
               /\ Some(l.plane_size) = runIn.client.device.plane_size
               /\ runOut.ret = (IF runIn.kernel = "Ok" THEN Ok
                                ELSE LaunchError(runIn.kernel))

C19_Witness ==
    /\ Dispatched
    /\ runIn.self.out.precision = "F32"
    /\ runIn.self.selector = "DoubleBuffering"
    /\ runIn.client.device.tf32
    /\ runOut.launches[1].precision = "(f32, tf32, f32, f32)"
    /\ runOut.ret = Ok

\* C22: for operands of equal rank, the m, n and k of the MatmulProblem a
\* run builds are the tensor dimensions themselves (m the second-to-last and
\* k the last dimension of lhs, n the last dimension of rhs) for every usize
\* value of a dimension, those of 2^32 or more included.
C22_DimensionsKeepTheirValue ==
    LET lhs == runIn.inputs.lhs_shape
        rhs == runIn.inputs.rhs_shape
    IN (Ran /\ runOut.problem # None /\ Len(lhs) = Len(rhs)) =>
        /\ runOut.problem.val.m = lhs[Len(lhs) - 1]
        /\ runOut.problem.val.k = lhs[Len(lhs)]
        /\ runOut.problem.val.n = rhs[Len(rhs)]

(***************************************************************************)
(* Properties of build.                                                    *)
(***************************************************************************)
Built == built # None

MeshNdim == Len(builder.shape)

MappedNames == DOMAIN builder.dims

\* the builder's map sends its names one-to-one onto all of 0..ndim-1
OneToOneOntoAllIndices ==
    /\ \A a, b \in MappedNames : builder.dims[a] = builder.dims[b] => a = b
    /\ {builder.dims[a] : a \in MappedNames} = 0..(MeshNdim - 1)

AnyIndexOutOfBounds == \E a \in MappedNames : builder.dims[a] >= MeshNdim

AnyIndexMappedTwice ==
    \E a, b \in MappedNames :
        a # b /\ builder.dims[a] = builder.dims[b] /\ builder.dims[a] < MeshNdim

\* the product of plain numbers
RECURSIVE NatProduct(_)
NatProduct(sizes) == IF sizes = <<>> THEN 1 ELSE Head(sizes) * NatProduct(Tail(sizes))

\* the number of devices is the product of the sizes of the shape: 1 for an
\* empty shape, 0 when a size is 0, and otherwise no number of devices when
\* a size is 2^32 or more
DeviceCountIsProduct ==
    LET shape == builder.shape
        n == Len(builder.devices)
    IN IF \E i \in 1..Len(shape) : shape[i] = Usize(0, 0) THEN n = 0
       ELSE IF \E i \in 1..Len(shape) : shape[i].hi > 0 THEN FALSE
       ELSE n = NatProduct([i \in 1..Len(shape) |-> shape[i].lo])

\* C13: build returns Ok exactly when the builder's map sends its names
\* one-to-one onto all indices 0..ndim-1 of the shape and the number of
\* devices is the product of the shape, in whatever order with_dim was
\* called and the map is visited; the mesh returned holds the builder's
\* devices, shape and map.
C13_BuildOkIff ==
    Built =>
        /\ built.val.tag = "Ok" <=> (OneToOneOntoAllIndices /\ DeviceCountIsProduct)
        /\ built.val.tag = "Ok" =>
                built.val.mesh = Some([devices |-> builder.devices,
                                       shape |-> builder.shape,
                                       dims |-> builder.dims])

C16_IndexMappedTwice ==
    (Built /\ AnyIndexMappedTwice) =>
        /\ built.val.tag = "Err"
        /\ built.val.error = "InvalidDimension"
        /\ built.val.mesh = None

C16_Witness ==
    /\ Built
    /\ AnyIndexMappedTwice
    /\ ~AnyIndexOutOfBounds
    /\ MeshNdim = 2
    /\ ~DeviceCountIsProduct
    /\ built.val = MeshErr("InvalidDimension", "Dimension already mapped")

\* C17: when every mapped index is in bounds and mapped by one name only but
\* an index of the shape has no name, build returns the InvalidMesh error
\* that not all mesh dimensions are mapped, also when the device count does
\* not match the shape.
C17_NotAllMapped ==
    (/\ Built
     /\ ~AnyIndexOutOfBounds
     /\ ~AnyIndexMappedTwice
     /\ \E i \in 0..(MeshNdim - 1) : \A a \in MappedNames : builder.dims[a] # i) =>
        built.val = MeshErr("InvalidMesh", "Not all mesh dimensions are mapped")

C17_Witness ==
    /\ Built
    /\ MeshNdim = 2
    /\ Cardinality(MappedNames) = 1
    /\ ~AnyIndexOutOfBounds
    /\ ~DeviceCountIsProduct
    /\ built.val = MeshErr("InvalidMesh", "Not all mesh dimensions are mapped")

\* C18: when every index of the shape is mapped by exactly one name but the
\* number of devices differs from the product of the shape's sizes, build
\* returns an InvalidMesh error and no mesh.
C18_DeviceCountMismatch ==
    (Built /\ OneToOneOntoAllIndices /\ ~DeviceCountIsProduct) =>
        /\ built.val.tag = "Err"
        /\ built.val.error = "InvalidMesh"
        /\ built.val.mesh = None

====
